---- MODULE Spec2Model ----
(***************************************************************************)
(* A model of the NitroROM filesystem reader of pokemon-map                *)
(* (src/src/nitro.rs): the traversal iterator FsTraversal, the path search *)
(* Directory::search, and the table reader (Filesystem::from_rom,          *)
(* Filesystem::from_archive, Filesystem::root_dir).                        *)
(*                                                                         *)
(* A tree is a nested value, as in the source: a Directory owns the        *)
(* sequence of its entries.  A reference &Entry held by the iterator is    *)
(* modelled by the entry's position: the sequence of 1-based child indexes *)
(* leading to it from the start directory.                                 *)
(***************************************************************************)
EXTENDS Integers, Sequences, FiniteSets, TLC

VARIABLES
    tree,       \* the start directory handed to traverse() / search()
    it,         \* the FsTraversal iterator: depth, dir_files, to_visit
    out,        \* the (depth, entry) pairs yielded so far, in order
    tpc,        \* position of the loop that drives the iterator
    path,       \* search(): the path looked for, as its sequence of components
    curr_depth, \* search(): curr_depth
    stack,      \* search(): the PathBuf stack, as its sequence of components
    result,     \* search(): the value returned
    spc,        \* search(): position in the function
    overflow_checks, \* the build: TRUE when integer overflow panics
                \* (debug), FALSE when it wraps (release)
    input,      \* what the two files were written from
    file,       \* the files read: a plain image "rom" and an archive "arc"
    cursor,     \* the cursor of each file
    fsys,       \* the Filesystem made from each file
    root,       \* the Directory returned by root_dir() for each file
    trace,      \* the sub-table entries produced by root_dir(), in order
    bpc,        \* how far each file has been read
    chunks      \* the calls of NitroArcChunk::read made by from_archive

vars == <<tree, it, out, tpc, path, curr_depth, stack, result, spc,
          overflow_checks, input, file, cursor, fsys, root, trace, bpc,
          chunks>>

\* ------------------------------------------------------------------ bounds

\* Largest number of entries (files and directories) below a start directory.
MaxEntries == 4

\* Names given to the entries of the trees that are traversed.
TravNames == {"a"}

\* Largest number of entries below a start directory that is searched.
MaxSearchEntries == 4

\* Largest number of items (files, reserved headers, subdirectories) in the
\* sub-tables of a file that is read.
MaxItems == 3

\* Largest first file id of the root directory.
MaxFirstId == 1

\* Largest number of components of a path that is searched for.
MaxPathLen == 3

\* Largest number of entries below a start directory that is searched and
\* may hold entries named "/".
MaxRootedEntries == 3

\* Names given to the entries of the trees that are searched, and to the
\* components of the paths searched for.
SearchNames == {"a", "b"}

\* ------------------------------------------------------------- the tree

MkFile(n, o, l) == [kind |-> "File", name |-> n, offset |-> o, len |-> l]

MkDirectory(n, es) == [kind |-> "Directory", name |-> n, entries |-> es]

IsFile(e) == e.kind = "File"

IsDirectory(e) == e.kind = "Directory"

\* The entry a reference points to: the child reached from directory d by
\* the indexes of p.
RECURSIVE EntryAt(_, _)
EntryAt(d, p) ==
    IF Len(p) = 1 THEN d.entries[p[1]]
    ELSE EntryAt(d.entries[p[1]], Tail(p))

\* Every tree with exactly n entries whose names are drawn from names.
RECURSIVE ForestsExact(_, _)
ForestsExact(n, names) ==
    IF n = 0 THEN {<<>>}
    ELSE UNION {
        LET firsts ==
                (IF k = 1 THEN {MkFile(nm, 0, 0) : nm \in names} ELSE {})
                \cup {MkDirectory(nm, es) : nm \in names,
                                            es \in ForestsExact(k - 1, names)}
        IN {<<e>> \o f : e \in firsts, f \in ForestsExact(n - k, names)}
        : k \in 1..n}

Forests(n, names) == UNION {ForestsExact(k, names) : k \in 0..n}

\* The references to all descendants of directory d.
RECURSIVE AllRefs(_)
AllRefs(d) ==
    UNION {
        {<<i>>} \cup
        (IF IsDirectory(d.entries[i])
         THEN {<<i>> \o q : q \in AllRefs(d.entries[i])}
         ELSE {})
        : i \in 1..Len(d.entries)}

\* ------------------------------------------------------- FsTraversal

\* A plausible slip: the start directory's subdirectories queued at depth 0.
MutPushStartDirDepth0(to_visit, i) == Append(to_visit, <<0, <<i>>>>)

\* to_visit.push_back((1, entry)) for the i-th entry of the start directory.
PushStartDir(to_visit, i) == Append(to_visit, <<1, <<i>>>>)

\* FsTraversal::new, the loop body for the entries from index i on.
RECURSIVE NewLoop(_, _, _, _)
NewLoop(start, i, dir_files, to_visit) ==
    IF i > Len(start.entries) THEN [dir_files |-> dir_files, to_visit |-> to_visit]
    ELSE IF IsFile(start.entries[i])
         THEN NewLoop(start, i + 1, Append(dir_files, <<i>>), to_visit)
         ELSE NewLoop(start, i + 1, dir_files, PushStartDir(to_visit, i))

FsTraversalNew(start) ==
    LET r == NewLoop(start, 1, <<>>, <<>>)
    IN [depth |-> 0, dir_files |-> r.dir_files, to_visit |-> r.to_visit]

\* A plausible slip: the pending files replaced instead of extended.
MutPushFrontFileOverwrites(dir_files, ref) == <<ref>>

\* self.dir_files.push_front(entry)
PushFrontFile(dir_files, ref) == <<ref>> \o dir_files

\* A plausible slip: a subdirectory queued at the depth of the directory
\* that holds it.
RECURSIVE MutExpandLoopSameDepth(_, _, _, _, _, _)
MutExpandLoopSameDepth(dir, p, depth, i, dir_files, to_visit) ==
    IF i > Len(dir.entries) THEN [dir_files |-> dir_files, to_visit |-> to_visit]
    ELSE IF IsFile(dir.entries[i])
         THEN MutExpandLoopSameDepth(dir, p, depth, i + 1,
                                     <<Append(p, i)>> \o dir_files, to_visit)
         ELSE MutExpandLoopSameDepth(dir, p, depth, i + 1, dir_files,
                                     Append(to_visit, <<depth, Append(p, i)>>))

\* The loop of FsTraversal::next over the entries of the popped directory
\* (whose reference is p and whose depth is depth), from index i on.
RECURSIVE ExpandLoop(_, _, _, _, _, _)
ExpandLoop(dir, p, depth, i, dir_files, to_visit) ==
    IF i > Len(dir.entries) THEN [dir_files |-> dir_files, to_visit |-> to_visit]
    ELSE IF IsFile(dir.entries[i])
         THEN ExpandLoop(dir, p, depth, i + 1,
                         PushFrontFile(dir_files, Append(p, i)), to_visit)
         ELSE ExpandLoop(dir, p, depth, i + 1,
                         dir_files, Append(to_visit, <<depth + 1, Append(p, i)>>))

NoItem == <<>>

\* A plausible slip: the pending directories are looked at first.
MutFilesPendingAfterDirs(t) == t.dir_files # <<>> /\ t.to_visit = <<>>

\* if let Some(file) = self.dir_files.pop_front(): a file is pending.
FilesPending(t) == t.dir_files # <<>>

\* A plausible slip: an iterator over the files alone, which expands a
\* directory without yielding it.
RECURSIVE MutFsNextFilesOnly(_, _)
MutFsNextFilesOnly(start, t) ==
    IF t.dir_files # <<>>
    THEN [item |-> <<t.depth, Head(t.dir_files)>>,
          it   |-> [t EXCEPT !.dir_files = Tail(t.dir_files)]]
    ELSE IF t.to_visit # <<>>
    THEN LET last == t.to_visit[Len(t.to_visit)]
             r    == ExpandLoop(EntryAt(start, last[2]), last[2], last[1], 1,
                                t.dir_files,
                                SubSeq(t.to_visit, 1, Len(t.to_visit) - 1))
         IN MutFsNextFilesOnly(start, [depth |-> last[1],
                                       dir_files |-> r.dir_files,
                                       to_visit |-> r.to_visit])
    ELSE [item |-> NoItem, it |-> t]

\* A plausible slip: the pending directories taken from the front.
MutPopFront(to_visit) == [last |-> Head(to_visit), rest |-> Tail(to_visit)]

\* self.to_visit.pop_back() on a non-empty deque: the element popped and
\* the deque that is left.
PopBack(to_visit) ==
    [last |-> to_visit[Len(to_visit)],
     rest |-> SubSeq(to_visit, 1, Len(to_visit) - 1)]

\* A plausible slip: None as soon as no file is pending.
MutFsNextNoneWithoutFiles(start, t) ==
    IF t.dir_files # <<>>
    THEN [item |-> <<t.depth, Head(t.dir_files)>>,
          it   |-> [t EXCEPT !.dir_files = Tail(t.dir_files)]]
    ELSE [item |-> NoItem, it |-> t]

\* FsTraversal::next: the item returned (NoItem for None) and the iterator
\* after the call.
FsNext(start, t) ==
    IF FilesPending(t)
    THEN [item |-> <<t.depth, Head(t.dir_files)>>,
          it   |-> [t EXCEPT !.dir_files = Tail(t.dir_files)]]
    ELSE IF t.to_visit # <<>>
    THEN LET last   == PopBack(t.to_visit).last
             popped == PopBack(t.to_visit).rest
             depth  == last[1]
             p      == last[2]
             e      == EntryAt(start, p)
         IN IF IsDirectory(e)
            THEN LET r == ExpandLoop(e, p, depth, 1, t.dir_files, popped)
                 IN [item |-> <<depth, p>>,
                     it   |-> [depth |-> depth,
                               dir_files |-> r.dir_files,
                               to_visit |-> r.to_visit]]
            ELSE [item |-> NoItem, it |-> [t EXCEPT !.to_visit = popped]]
    ELSE [item |-> NoItem, it |-> t]

\* ------------------------------------------------ integers and the file

\* A u32 is held as its two 16-bit halves <<low, high>>, its value being
\* low + 65536 * high: the checker's integers end below 2^32.
U32(lo, hi) == <<lo, hi>>

U32Zero == U32(0, 0)

\* u32::from_le_bytes
U32FromLeBytes(b) == U32(b[1] + 256 * b[2], b[3] + 256 * b[4])

\* u16::from_le_bytes
U16FromLeBytes(b) == b[1] + 256 * b[2]

\* a + b on u32: the wrapped sum and whether it overflowed.
AddU32(a, b) ==
    LET lo == a[1] + b[1]
        hi == a[2] + b[2] + (lo \div 65536)
    IN [val |-> U32(lo % 65536, hi % 65536), overflow |-> hi >= 65536]

\* a - b on u32: the wrapped difference and whether it overflowed.
SubU32(a, b) ==
    LET lo == a[1] - b[1]
        hi == a[2] - b[2] - (IF lo < 0 THEN 1 ELSE 0)
    IN [val |-> U32(lo % 65536, hi % 65536), overflow |-> hi < 0]

\* A cursor position (u64) is an integer; every position from PosFar on is
\* held as PosFar, which lies beyond the end of every file of the model.
PosFar == 2000000000

PosAdd(p, k) == IF p + k >= PosFar THEN PosFar ELSE p + k

\* u32 as u64
PosOfU32(u) ==
    IF u[2] > PosFar \div 65536 THEN PosFar ELSE PosAdd(u[2] * 65536, u[1])

\* A file is its length and its bytes; a byte that data does not list is 0.
ByteAt(f, p) == IF p \in DOMAIN f.data THEN f.data[p] ELSE 0

Ok(v, p) == [st |-> "ok", val |-> v, pos |-> p]

Err(p) == [st |-> "err", pos |-> p]

Panic(p) == [st |-> "panic", pos |-> p]

\* Read::read_exact on a File at cursor p: n bytes, or an error (with the
\* cursor left at the end of the file) when fewer than n remain.
ReadExact(f, p, n) ==
    IF PosAdd(p, n) <= f.len
    THEN Ok([i \in 1..n |-> ByteAt(f, p + i - 1)], p + n)
    ELSE Err(IF p >= f.len THEN p ELSE f.len)

\* ReadBytes::read_u8
ReadU8(f, p) ==
    LET r == ReadExact(f, p, 1)
    IN IF r.st = "ok" THEN Ok(r.val[1], r.pos) ELSE r

\* ReadBytes::read_u16
ReadU16(f, p) ==
    LET r == ReadExact(f, p, 2)
    IN IF r.st = "ok" THEN Ok(U16FromLeBytes(r.val), r.pos) ELSE r

\* ReadBytes::read_u32
ReadU32(f, p) ==
    LET r == ReadExact(f, p, 4)
    IN IF r.st = "ok" THEN Ok(U32FromLeBytes(r.val), r.pos) ELSE r

\* String::from_utf8 accepts bytes b[i..]: the well-formed UTF-8 sequences.
IsCont(x) == x >= 128 /\ x <= 191

RECURSIVE Utf8From(_, _)
Utf8From(b, i) ==
    IF i > Len(b) THEN TRUE
    ELSE LET x == b[i]
             c(k) == IF i + k <= Len(b) THEN b[i + k] ELSE 0
         IN IF x <= 127 THEN Utf8From(b, i + 1)
            ELSE IF x >= 194 /\ x <= 223
                 THEN IsCont(c(1)) /\ Utf8From(b, i + 2)
            ELSE IF x >= 224 /\ x <= 239
                 THEN /\ IsCont(c(1)) /\ IsCont(c(2))
                      /\ (x = 224 => c(1) >= 160)
                      /\ (x = 237 => c(1) <= 159)
                      /\ Utf8From(b, i + 3)
            ELSE IF x >= 240 /\ x <= 244
                 THEN /\ IsCont(c(1)) /\ IsCont(c(2)) /\ IsCont(c(3))
                      /\ (x = 240 => c(1) >= 144)
                      /\ (x = 244 => c(1) <= 143)
                      /\ Utf8From(b, i + 4)
            ELSE FALSE

\* ReadBytes::read_string: the name is kept as its sequence of bytes.
ReadString(f, p, n) ==
    LET r == ReadExact(f, p, n)
    IN IF r.st = "ok" /\ ~Utf8From(r.val, 1) THEN Err(r.pos) ELSE r

\* ------------------------------------------------ the tree builder

\* The result of a read of the builder: its status ("ok", "err" for an
\* io::Error, "panic"), the value built, the cursor afterwards, and the log
\* of the sub-table entries produced so far.
Built(st, v, p, log) == [st |-> st, val |-> v, pos |-> p, log |-> log]

\* Filesystem::fat_offset(file_id)
FatOffset(fs, file_id) == PosAdd(PosOfU32(fs.fat_offset), file_id * 8)

\* Filesystem::fnt_offset(dir_id)
FntOffset(fs, dir_id) == PosAdd(PosOfU32(fs.fnt_offset), dir_id * 8)

\* The ? operator on a read r: its error ends the function, and otherwise
\* the function goes on as K with what was read.
Try(r, K(_)) == IF r.st # "ok" THEN r ELSE K(r)

\* A u32 operation that overflowed panics in a build with overflow checks
\* and wraps in one without.
Checked(x, checks, p, K(_)) == IF x.overflow /\ checks THEN Panic(p) ELSE K(x.val)

\* A plausible slip: the image base is left out of a file's offset.
MutFileReadNoImageBase(f, fs, p, name, checks) ==
    Try(ReadU32(f, p), LAMBDA r1 :
    Try(ReadU32(f, r1.pos), LAMBDA r2 :
    Checked(SubU32(r2.val, r1.val), checks, r2.pos, LAMBDA len :
    Ok(MkFile(name, r1.val, len), r2.pos))))

\* File::read, the cursor being at p.
FileRead(f, fs, p, name, checks) ==
    Try(ReadU32(f, p), LAMBDA r1 :
    Checked(AddU32(fs.image_offset, r1.val), checks, r1.pos, LAMBDA offset :
    Try(ReadU32(f, r1.pos), LAMBDA r2 :
    Checked(SubU32(r2.val, r1.val), checks, r2.pos, LAMBDA len :
    Ok(MkFile(name, offset, len), r2.pos)))))

NumFiles(entries) == Len(SelectSeq(entries, IsFile))

RootName == <<114, 111, 111, 116>>

\* The ? operator inside the builder, which carries the log along: that of
\* the failed read when it kept one, and else the log so far.
TryB(r, log, K(_)) ==
    IF r.st # "ok"
    THEN Built(r.st, <<>>, r.pos, IF "log" \in DOMAIN r THEN r.log ELSE log)
    ELSE K(r)

\* A plausible slip: the running file id is not advanced.
MutNextFileIdStays(file_id) == [val |-> file_id, overflow |-> FALSE]

\* file_id += 1 on u16
NextFileId(file_id) ==
    [val |-> (file_id + 1) % 65536, overflow |-> file_id = 65535]

\* What the log keeps of a produced entry: its kind, the file_id argument of
\* its sub-table and the number of files produced before it there, the
\* position sought for it (its allocation row or main-table entry), the
\* cursor left by reading it, the position restored afterwards, and the
\* entry itself.
Produced(e, first, entries, sought, left, entry_end) ==
    [kind |-> e.kind, first |-> first, index |-> NumFiles(entries),
     sought |-> sought, left |-> left, entry_end |-> entry_end, entry |-> e]

\* A plausible slip: the cursor stays where the read of the entry left it.
MutSeekEntryEndStays(entry_end, left) == left

\* fs.inner.seek(SeekFrom::Start(entry_end)) behind an entry whose read
\* left the cursor at left: the cursor for the next header.
SeekEntryEnd(entry_end, left) == entry_end

\* A plausible slip: the entry is put in front of the vector.
MutPushEntryFront(entries, e) == <<e>> \o entries

\* entries.push(...) in Entry::read_sub_table
PushEntry(entries, e) == Append(entries, e)

RECURSIVE ReadSubTable(_, _, _, _, _, _, _, _)
RECURSIVE DirectoryRead(_, _, _, _, _, _)

\* Entry::read_sub_table from the loop's head, the cursor being at p: first
\* is the file_id argument, file_id its running value, entries the vector
\* so far.
ReadSubTable(f, fs, p, first, file_id, entries, log, checks) ==
    TryB(ReadU8(f, p), log, LAMBDA header :
    IF header.val = 0 THEN Built("ok", entries, header.pos, log)
    ELSE IF header.val = 128
    THEN ReadSubTable(f, fs, header.pos, first, file_id, entries, log, checks)
    ELSE
    TryB(ReadString(f, header.pos, header.val % 128), log, LAMBDA name :
    IF header.val < 128
    THEN \* a file: its row of the FAT is read
         TryB(Checked(NextFileId(file_id), checks,
                      FatOffset(fs, file_id), LAMBDA id : Ok(id, name.pos)),
              log, LAMBDA next_id :
         TryB(FileRead(f, fs, FatOffset(fs, file_id), name.val, checks),
              log, LAMBDA file_ :
         ReadSubTable(f, fs, SeekEntryEnd(name.pos, file_.pos), first,
                      next_id.val,
                      PushEntry(entries, file_.val),
                      Append(log, Produced(file_.val, first, entries,
                                           FatOffset(fs, file_id),
                                           file_.pos, name.pos)),
                      checks)))
    ELSE \* a subdirectory: read recursively
         TryB(ReadU16(f, name.pos), log, LAMBDA subdir_id :
         TryB(DirectoryRead(f, fs, FntOffset(fs, subdir_id.val % 4096),
                            name.val, log, checks),
              log, LAMBDA dir :
         ReadSubTable(f, fs, SeekEntryEnd(name.pos + 2, dir.pos), first,
                      file_id,
                      PushEntry(entries, dir.val),
                      Append(dir.log, Produced(dir.val, first, entries,
                                               FntOffset(fs, subdir_id.val % 4096),
                                               dir.pos, name.pos + 2)),
                      checks)))))

\* A plausible slip: a directory without entries is refused.
MutDirectoryReadRefusesEmpty(f, fs, p, name, log, checks) ==
    TryB(ReadU32(f, p), log, LAMBDA r1 :
    TryB(ReadU16(f, r1.pos), log, LAMBDA first_file_id :
    TryB(ReadSubTable(f, fs, PosOfU32(AddU32(fs.fnt_offset, r1.val).val),
                      first_file_id.val, first_file_id.val, <<>>, log, checks),
         log, LAMBDA entries :
    Built(IF entries.val = <<>> THEN "err" ELSE "ok",
          MkDirectory(name, entries.val), entries.pos, entries.log))))

\* Directory::read, the cursor being at p.
DirectoryRead(f, fs, p, name, log, checks) ==
    TryB(ReadU32(f, p), log, LAMBDA r1 :
    TryB(Checked(AddU32(fs.fnt_offset, r1.val), checks, r1.pos,
                 LAMBDA sum : Ok(sum, r1.pos)),
         log, LAMBDA sub_table_offset :
    TryB(ReadU16(f, r1.pos), log, LAMBDA first_file_id :
    TryB(ReadSubTable(f, fs, PosOfU32(sub_table_offset.val), first_file_id.val,
                      first_file_id.val, <<>>, log, checks),
         log, LAMBDA entries :
    Built("ok", MkDirectory(name, entries.val), entries.pos, entries.log)))))

\* Filesystem::root_dir
RootDir(f, fs, checks) ==
    DirectoryRead(f, fs, PosOfU32(fs.fnt_offset), RootName, <<>>, checks)

\* Filesystem::from_rom: two reads at fixed offsets, the cursor untouched.
ReadU32At(f, offset) == ReadU32(f, offset)

FromRom(f, p) ==
    IF ReadU32At(f, 64).st # "ok" \/ ReadU32At(f, 72).st # "ok" THEN Err(p)
    ELSE Ok([fnt_offset |-> ReadU32At(f, 64).val,
             fat_offset |-> ReadU32At(f, 72).val,
             image_offset |-> U32Zero], p)

\* u64 as u32, for a position below 2^31
U32OfPos(p) == U32(p % 65536, p \div 65536)

TagNARC == <<78, 65, 82, 67>>

TagBTAF == <<66, 84, 65, 70>>

TagBTNF == <<66, 84, 78, 70>>

TagGMIF == <<71, 77, 73, 70>>

\* io_bail! when what was read is not what is expected.
Expect(r, expected, K(_)) == IF r.val # expected THEN Err(r.pos) ELSE K(r)

\* NitroArcChunk::read, the cursor being at p.
NitroArcChunkRead(f, p, name, checks) ==
    Try(ReadString(f, p, 4), LAMBDA actual_name :
    Expect(actual_name, name, LAMBDA tag :
    Try(ReadU32(f, tag.pos), LAMBDA len :
    Checked(AddU32(U32OfPos(p), len.val), checks, len.pos, LAMBDA end :
    Try(ReadU32(f, PosOfU32(end)), LAMBDA last :
    Ok([offset |-> U32OfPos(p), len |-> last.val], last.pos))))))

\* What is kept of a call of NitroArcChunk::read: the tag it was asked for,
\* the cursor when it was entered, its outcome r and the cursor it left.
ChunkCall(name, p, r) ==
    [name |-> name, start |-> p, st |-> r.st, left |-> r.pos]

\* The ? operator inside from_archive, which carries along the calls of
\* NitroArcChunk::read made so far.
TryC(r, calls, K(_)) ==
    IF r.st # "ok" THEN [st |-> r.st, pos |-> r.pos, chunks |-> calls]
    ELSE K(r)

\* Filesystem::from_archive, the cursor being at p.  skip(n) on a File is a
\* relative seek.
FromArchive(f, p, checks) ==
    TryC(ReadString(f, p, 4), <<>>, LAMBDA file_sig :
    TryC(Expect(file_sig, TagNARC, LAMBDA sig :
         ReadU16(f, PosAdd(sig.pos, 2))), <<>>, LAMBDA version :
    TryC(Expect(version, 16, LAMBDA v :
         ReadU16(f, PosAdd(v.pos, 6))), <<>>, LAMBDA chunk_count :
    TryC(Expect(chunk_count, 3, LAMBDA c :
         NitroArcChunkRead(f, c.pos, TagBTAF, checks)),
         IF chunk_count.val = 3
         THEN <<ChunkCall(TagBTAF, chunk_count.pos,
                          NitroArcChunkRead(f, chunk_count.pos, TagBTAF, checks))>>
         ELSE <<>>, LAMBDA fat :
    TryC(NitroArcChunkRead(f, fat.pos, TagBTNF, checks),
         <<ChunkCall(TagBTAF, chunk_count.pos, fat),
           ChunkCall(TagBTNF, fat.pos,
                     NitroArcChunkRead(f, fat.pos, TagBTNF, checks))>>,
         LAMBDA fnt :
    TryC(NitroArcChunkRead(f, fnt.pos, TagGMIF, checks),
         <<ChunkCall(TagBTAF, chunk_count.pos, fat),
           ChunkCall(TagBTNF, fat.pos, fnt),
           ChunkCall(TagGMIF, fnt.pos,
                     NitroArcChunkRead(f, fnt.pos, TagGMIF, checks))>>,
         LAMBDA image :
    [st |-> "ok",
     val |-> [fnt_offset |-> fnt.val.offset, fat_offset |-> fat.val.offset,
              image_offset |-> image.val.offset],
     pos |-> image.pos,
     chunks |-> <<ChunkCall(TagBTAF, chunk_count.pos, fat),
                  ChunkCall(TagBTNF, fat.pos, fnt),
                  ChunkCall(TagGMIF, fnt.pos, image)>>]))))))

\* ------------------------------------------------ the files that are read

\* u16::to_le_bytes and u32::to_le_bytes, which the reads invert.
LE16(n) == <<n % 256, n \div 256>>

LE32(u) == LE16(u[1]) \o LE16(u[2])

\* A sub-table is described by its items in order: a file, a reserved 0x80
\* header, or a subdirectory with its own sub-table.  Every description of
\* exactly n items in all:
RECURSIVE SubTablesExact(_)
SubTablesExact(n) ==
    IF n = 0 THEN {<<>>}
    ELSE UNION {
        LET firsts ==
                (IF k = 1 THEN {[kind |-> "File"], [kind |-> "Reserved"]} ELSE {})
                \cup {[kind |-> "Directory", entries |-> es] :
                         es \in SubTablesExact(k - 1)}
        IN {<<e>> \o t : e \in firsts, t \in SubTablesExact(n - k)}
        : k \in 1..n}

SubTables(n) == UNION {SubTablesExact(k) : k \in 0..n}

\* The name of the i-th item of a sub-table: i-th letter, one to three times.
NameAt(i) == [k \in 1..(((i - 1) % 3) + 1) |-> 96 + i]

\* The bytes of the sub-table described by items (from item i on), its
\* subdirectories taking the directory ids from next on in pre-order, and
\* the sub-tables of those subdirectories in the order of their ids.
RECURSIVE EncodeSubTable(_, _, _)
EncodeSubTable(items, i, next) ==
    IF i > Len(items) THEN [sub |-> <<0>>, rest |-> <<>>, next |-> next]
    ELSE LET e == items[i]
         IN IF e.kind = "Reserved"
            THEN LET r == EncodeSubTable(items, i + 1, next)
                 IN [r EXCEPT !.sub = <<128>> \o @]
            ELSE IF e.kind = "File"
            THEN LET r == EncodeSubTable(items, i + 1, next)
                 IN [r EXCEPT !.sub = <<Len(NameAt(i))>> \o NameAt(i) \o @]
            ELSE LET c == EncodeSubTable(e.entries, 1, next + 1)
                     r == EncodeSubTable(items, i + 1, c.next)
                 IN [sub  |-> <<128 + Len(NameAt(i))>> \o NameAt(i)
                              \o LE16(61440 + next) \o r.sub,
                     rest |-> <<c.sub>> \o c.rest \o r.rest,
                     next |-> r.next]

\* The sub-tables of all directories, that of directory id k at index k + 1.
SubTableBytes(items) ==
    LET r == EncodeSubTable(items, 1, 1)
    IN <<r.sub>> \o r.rest

RECURSIVE Concat(_)
Concat(ss) == IF ss = <<>> THEN <<>> ELSE Head(ss) \o Concat(Tail(ss))

\* The first file id written into the main-table entry of directory id k.
FirstIdOf(in, k) == in.id_base + k * in.id_stride

\* The name table: the main table (8 bytes per directory: sub-table offset,
\* first file id, parent id or directory count) and then the sub-tables.
\* from is the first directory id whose main-table entry is written.
FntBytes(in, from) ==
    LET subs == SubTableBytes(in.items)
        nd   == Len(subs)
        off(k) == 8 * nd + Len(Concat(SubSeq(subs, 1, k)))
        main(k) == LE32(U32(off(k), 0)) \o LE16(FirstIdOf(in, k))
                   \o LE16(IF k = 0 THEN nd ELSE 61440)
    IN Concat([k \in 1..(nd - from) |-> main(k + from - 1)]) \o Concat(subs)

\* Row r of the allocation table: an ordinary row, a row whose end lies
\* before its start, or a row whose start is near 2^32, by turns.
FatRow(in, r) ==
    LET pat == (r + in.fat_kind) % 3
    IN IF pat = 0 THEN <<U32(16 * r, 0), U32(17 * r + 1, 0)>>
       ELSE IF pat = 1 THEN <<U32(200 + r, 0), U32(100 + r, 0)>>
       ELSE <<U32(65535 - r, 65535), U32(5, 0)>>

FatBytes(in, from, rows) ==
    Concat([k \in 1..(rows - from) |->
               LE32(FatRow(in, k + from - 1)[1]) \o LE32(FatRow(in, k + from - 1)[2])])

\* The bytes bs placed from position base on.
BlobAt(base, bs) == [p \in base..(base + Len(bs) - 1) |-> bs[p - base + 1]]

\* Rows of the allocation table: enough for every file id that is used.
NumRows == MaxFirstId + 2 * MaxItems + 1

\* Where the tables lie in the plain image: behind the header fields.
RomFntBase == 76

\* A plain image: the two header fields at 0x40 and 0x48, the name table
\* and the allocation table.
RomFile(in) ==
    LET fnt     == FntBytes(in, 0)
        fat     == FatBytes(in, 0, NumRows)
        fatBase == RomFntBase + Len(fnt)
    IN [len  |-> fatBase + Len(fat),
        data |-> BlobAt(64, LE32(U32(RomFntBase, 0)))
                 @@ BlobAt(72, LE32(U32(fatBase, 0)))
                 @@ BlobAt(RomFntBase, fnt)
                 @@ BlobAt(fatBase, fat)]

\* The archive header: magic, byte order, version, file size, header size,
\* chunk count.
ArchiveHeader(size) ==
    TagNARC \o <<254, 255>> \o LE16(16) \o LE32(U32(size, 0)) \o LE16(16)
    \o LE16(3)

\* A minimal valid archive around the same tables: the header and the three
\* chunks BTAF, BTNF, GMIF, each beginning where the one before ends.
NarcFile(in) ==
    LET fnt  == FntBytes(in, 0)
        fat  == FatBytes(in, 0, NumRows)
        btaf == TagBTAF \o LE32(U32(12 + Len(fat), 0)) \o LE16(NumRows)
                \o LE16(0) \o fat
        btnf == TagBTNF \o LE32(U32(8 + Len(fnt), 0)) \o fnt
        gmif == TagGMIF \o LE32(U32(8, 0))
        size == 16 + Len(btaf) + Len(btnf) + Len(gmif)
    IN [len  |-> size,
        data |-> BlobAt(0, ArchiveHeader(size) \o btaf \o btnf \o gmif)]

\* The u32 that the bytes "BTNF" spell: what Directory::read takes for the
\* root's sub-table offset when the name-table base is the chunk's start.
TagBTNFAsOffset == 17998 * 65536 + 21570

\* An archive laid out the way from_archive and root_dir read one: every
\* chunk begins 4 bytes behind the end of the one before, four more bytes
\* follow the last, the BTNF length field carries the root's first file id
\* in its low half, the main-table entries and allocation rows from id 1 on
\* follow the chunk headers, and the root's sub-table lies TagBTNFAsOffset
\* bytes behind the BTNF tag.
SkewedArchiveFile(in) ==
    LET subs == SubTableBytes(in.items)
        btaf == TagBTAF \o LE32(U32(8 * NumRows, 0)) \o FatBytes(in, 1, NumRows)
        s2   == 16 + 8 * NumRows + 4
        btnf == TagBTNF \o LE32(U32(FirstIdOf(in, 0), 1)) \o FntBytes(in, 1)
        s3   == s2 + 65536 + FirstIdOf(in, 0) + 4
        gmif == TagGMIF \o LE32(U32(8, 0))
        far  == s2 + TagBTNFAsOffset
    IN [len  |-> far + Len(subs[1]),
        data |-> BlobAt(0, ArchiveHeader(0) \o btaf)
                 @@ BlobAt(s2, btnf)
                 @@ BlobAt(s3, gmif)
                 @@ BlobAt(far, subs[1])]

ArchiveKinds == {"narc", "skewed"}

\* The archive of either layout written from in.
ArchiveFile(in) ==
    IF in.arc_kind = "narc" THEN NarcFile(in) ELSE SkewedArchiveFile(in)

\* Where the tags of the three chunks of ArchiveFile(in) lie.
ChunkTagsAt(in) ==
    IF in.arc_kind = "narc"
    THEN <<16, 16 + 12 + 8 * NumRows,
           16 + 12 + 8 * NumRows + 8 + Len(FntBytes(in, 0))>>
    ELSE <<16, 16 + 8 * NumRows + 4,
           16 + 8 * NumRows + 4 + 65536 + FirstIdOf(in, 0) + 4>>

\* File f with the bytes bs written over it from position p on.
Overwrite(f, p, bs) == [f EXCEPT !.data = BlobAt(p, bs) @@ @]

\* File f cut off after its first n bytes.
Truncate(f, n) ==
    CHOOSE t \in {[len  |-> n,
                   data |-> [p \in {q \in DOMAIN g.data : q < n} |-> g.data[p]]]
                  : g \in {f}} : TRUE

\* File f behind k bytes that do not belong to it.
Shifted(f, k) ==
    CHOOSE t \in {[len  |-> g.len + k,
                   data |-> [p \in {q + k : q \in DOMAIN g.data} |-> g.data[p - k]]]
                  : g \in {f}} : TRUE

\* What is wrong with a file that is read: nothing; in an archive the magic
\* tag (another tag, or bytes that are not UTF-8), the version, the chunk
\* count, or the tag of one chunk; in a plain image the allocation table cut
\* off inside the row of the root's first or second file id, or the first
\* name of the root's or of the last directory's sub-table not UTF-8.
ArchiveDamages == {"magic", "magic8", "version", "count", "tag1", "tag2", "tag3"}

RomDamages == {"cut0", "cut1", "utf8root", "utf8last"}

Damages == {"none"} \cup ArchiveDamages \cup RomDamages

\* The bytes in front of an archive that is read from the cursor on.
Leads == {0, 5}

DamagedArchive(in) ==
    LET d == in.damage
        a == ArchiveFile(in)
    IN IF d = "magic" THEN Overwrite(a, 0, <<78, 65, 82, 68>>)
       ELSE IF d = "magic8" THEN Overwrite(a, 0, <<255, 65, 82, 67>>)
       ELSE IF d = "version" THEN Overwrite(a, 6, LE16(17))
       ELSE IF d = "count" THEN Overwrite(a, 14, LE16(2))
       ELSE IF d = "tag1" THEN Overwrite(a, ChunkTagsAt(in)[1], TagBTNF)
       ELSE IF d = "tag2" THEN Overwrite(a, ChunkTagsAt(in)[2], TagGMIF)
       ELSE IF d = "tag3" THEN Overwrite(a, ChunkTagsAt(in)[3], <<71, 77, 73, 71>>)
       ELSE a

\* Where the sub-table of the directory of id k lies in the plain image.
RomSubTableAt(in, k) ==
    RomFntBase + 8 * Len(SubTableBytes(in.items))
    + Len(Concat(SubSeq(SubTableBytes(in.items), 1, k)))

DamagedRom(in) ==
    LET d       == in.damage
        r       == RomFile(in)
        fatBase == RomFntBase + Len(FntBytes(in, 0))
        last    == Len(SubTableBytes(in.items)) - 1
        spoil(k) == IF SubTableBytes(in.items)[k + 1][1] \in {0, 128} THEN r
                    ELSE Overwrite(r, RomSubTableAt(in, k) + 1, <<255>>)
    IN IF d = "cut0" THEN Truncate(r, fatBase + 8 * FirstIdOf(in, 0) + 4)
       ELSE IF d = "cut1" THEN Truncate(r, fatBase + 8 * (FirstIdOf(in, 0) + 1) + 4)
       ELSE IF d = "utf8root" THEN spoil(0)
       ELSE IF d = "utf8last" THEN spoil(last)
       ELSE r

\* The step between the first file ids of two directories of consecutive
\* ids: all directories share their rows, or each starts one row further.
IdStrides == {0, 1}

FatKinds == 0..2

Src == {"rom", "arc"}

\* ------------------------------------------------ Directory::search

\* A plausible slip: a sibling directory (depth = curr_depth) is not popped.
MutMustPopStrict(cd, depth) == cd > depth

\* while curr_depth >= depth
MustPop(cd, depth) == cd >= depth

\* The path stack is the sequence of the components of the PathBuf; the
\* name "/" is the one absolute name that is modelled, and as a component it
\* is the root.
IsAbsolute(name) == name = "/"

\* PathBuf::push with a name of one component: an absolute name replaces
\* the whole path, any other is appended.
PathPush(st, name) == IF IsAbsolute(name) THEN <<name>> ELSE Append(st, name)

\* PathBuf::pop: false, and the path as it was, when the path is empty or
\* ends in the root; else true and the path without its last component.
PathPop(st) ==
    IF st = <<>> \/ IsAbsolute(st[Len(st)])
    THEN [ok |-> FALSE, stack |-> st]
    ELSE [ok |-> TRUE, stack |-> SubSeq(st, 1, Len(st) - 1)]

\* The while loop of search(): pops directory names until the parent level
\* is reached.  assert!(stack.pop()) panics when pop() returns false.  At
\* curr_depth = 0 the decrement overflows: a build with overflow checks
\* panics there, and one without wraps to usize::MAX, which is >= depth, so
\* the loop goes on popping until the assertion fails on the emptied stack:
\* a panic in either build.
RECURSIVE PopToParent(_, _, _)
PopToParent(cd, st, depth) ==
    IF MustPop(cd, depth)
    THEN IF ~PathPop(st).ok \/ cd = 0
         THEN [panic |-> TRUE, curr_depth |-> cd, stack |-> st]
         ELSE PopToParent(cd - 1, PathPop(st).stack, depth)
    ELSE [panic |-> FALSE, curr_depth |-> cd, stack |-> st]

\* Every sequence of at most n components.
RECURSIVE PathsUpTo(_, _)
PathsUpTo(n, names) ==
    IF n = 0 THEN {<<>>}
    ELSE LET shorter == PathsUpTo(n - 1, names)
         IN shorter \cup {Append(q, nm) : q \in shorter, nm \in names}

RECURSIVE UniqueSiblingNames(_)
UniqueSiblingNames(d) ==
    /\ \A i, j \in DOMAIN d.entries :
          i # j => d.entries[i].name # d.entries[j].name
    /\ \A i \in DOMAIN d.entries :
          IsDirectory(d.entries[i]) => UniqueSiblingNames(d.entries[i])

\* ------------------------------------------------ the three runs

NoIterator == [depth |-> 0, dir_files |-> <<>>, to_visit |-> <<>>]

searchVars == <<path, curr_depth, stack, result, spc>>

None == [some |-> FALSE]

Some(p) == [some |-> TRUE, ref |-> p]

\* The search variables of a run that does not search.
SearchIdle ==
    /\ path = <<>>
    /\ curr_depth = 0
    /\ stack = <<>>
    /\ result = None
    /\ spc = "idle"

NoFs == [fnt_offset |-> U32Zero, fat_offset |-> U32Zero, image_offset |-> U32Zero]

NoRoot == MkDirectory(<<>>, <<>>)

\* The reader's variables in a run that reads no file.
BuildIdle ==
    /\ input = <<>>
    /\ file = <<>>
    /\ cursor = <<>>
    /\ fsys = <<>>
    /\ root = <<>>
    /\ trace = <<>>
    /\ bpc = <<>>
    /\ chunks = <<>>

buildVars == <<input, file, cursor, fsys, root, trace, bpc, chunks>>

travVars == <<tree, it, out, tpc>>

InitTraversal ==
    /\ tree \in {MkDirectory("root", es) : es \in Forests(MaxEntries, TravNames)}
    /\ it = NoIterator
    /\ out = <<>>
    /\ tpc = "start"
    /\ SearchIdle
    /\ overflow_checks = TRUE
    /\ BuildIdle

\* root_dir.traverse()
Traverse ==
    /\ tpc = "start"
    /\ it' = FsTraversalNew(tree)
    /\ tpc' = "iterating"
    /\ UNCHANGED <<tree, out, searchVars, overflow_checks, buildVars>>

\* One call of next() by the for loop: an item is yielded, or the loop ends.
TraverseNext ==
    /\ tpc = "iterating"
    /\ LET r == FsNext(tree, it)
       IN /\ it' = r.it
          /\ \/ /\ r.item # NoItem
                /\ out' = Append(out, r.item)
                /\ tpc' = "iterating"
             \/ /\ r.item = NoItem
                /\ out' = out
                /\ tpc' = "done"
    /\ UNCHANGED <<tree, searchVars, overflow_checks, buildVars>>

NextTraversal == Traverse \/ TraverseNext

SpecTraversal == InitTraversal /\ [][NextTraversal]_vars

\* The for loop over traverse() calls next() again until it returns None.
SpecTraversalFair == SpecTraversal /\ WF_vars(NextTraversal)

InitSearch ==
    /\ tree \in {d \in {MkDirectory("root", es) :
                            es \in Forests(MaxSearchEntries, SearchNames)} :
                    UniqueSiblingNames(d)}
    /\ path \in PathsUpTo(MaxPathLen, SearchNames)
    /\ overflow_checks = TRUE
    /\ it = NoIterator
    /\ out = <<>>
    /\ tpc = "idle"
    /\ curr_depth = 0
    /\ stack = <<>>
    /\ result = None
    /\ spc = "start"
    /\ BuildIdle

\* search(), up to the first call of next(): the locals and self.traverse().
SearchStart ==
    /\ spc = "start"
    /\ curr_depth' = 0
    /\ stack' = <<>>
    /\ it' = FsTraversalNew(tree)
    /\ spc' = "loop"
    /\ UNCHANGED <<tree, out, tpc, path, result, overflow_checks, buildVars>>

\* One turn of the for loop of search(): next() is called and its item
\* handled, or the loop ends and None is returned.
SearchStep ==
    /\ spc = "loop"
    /\ LET r == FsNext(tree, it)
       IN /\ it' = r.it
          /\ \/ /\ r.item = NoItem
                /\ result' = None
                /\ spc' = "returned"
                /\ UNCHANGED <<curr_depth, stack>>
             \/ /\ r.item # NoItem
                /\ IsDirectory(EntryAt(tree, r.item[2]))
                /\ LET depth  == r.item[1]
                       dir    == EntryAt(tree, r.item[2])
                       popped == PopToParent(curr_depth, stack, depth)
                   IN IF popped.panic
                      THEN /\ spc' = "panicked"
                           /\ curr_depth' = popped.curr_depth
                           /\ stack' = popped.stack
                           /\ result' = result
                      ELSE /\ stack' = PathPush(popped.stack, dir.name)
                           /\ curr_depth' = depth
                           /\ IF stack' = path
                              THEN result' = Some(r.item[2]) /\ spc' = "returned"
                              ELSE result' = result /\ spc' = "loop"
             \/ /\ r.item # NoItem
                /\ IsFile(EntryAt(tree, r.item[2]))
                /\ LET f      == EntryAt(tree, r.item[2])
                       pushed == PathPush(stack, f.name)
                   IN IF pushed = path
                      THEN /\ result' = Some(r.item[2])
                           /\ spc' = "returned"
                           /\ stack' = pushed
                      ELSE /\ result' = result
                           /\ spc' = "loop"
                           /\ stack' = PathPop(pushed).stack
                /\ UNCHANGED curr_depth
    /\ UNCHANGED <<tree, out, tpc, path, overflow_checks, buildVars>>

NextSearch == SearchStart \/ SearchStep

SpecSearch == InitSearch /\ [][NextSearch]_vars

\* The names of the entries of the trees in which a name may be "/".
RootedNames == {"a", "/"}

\* The paths searched for in those trees: relative and absolute ones.
RootedPaths == {<<>>, <<"a">>, <<"a", "a">>, <<"/">>, <<"/", "a">>}

\* A search in a tree whose entries may be named "/": read_string accepts
\* any UTF-8 name of 1 to 127 bytes.
InitSearchRooted ==
    /\ tree \in {MkDirectory("root", es) :
                    es \in Forests(MaxRootedEntries, RootedNames)}
    /\ path \in RootedPaths
    /\ overflow_checks = TRUE
    /\ it = NoIterator
    /\ out = <<>>
    /\ tpc = "idle"
    /\ curr_depth = 0
    /\ stack = <<>>
    /\ result = None
    /\ spc = "start"
    /\ BuildIdle

SpecSearchRooted == InitSearchRooted /\ [][NextSearch]_vars

InitBuild ==
    /\ input \in [items : SubTables(MaxItems), id_base : 0..MaxFirstId,
                  id_stride : IdStrides, fat_kind : FatKinds,
                  arc_kind : ArchiveKinds]
    /\ overflow_checks \in BOOLEAN
    /\ file = [s \in Src |->
                 IF s = "rom" THEN RomFile(input)
                 ELSE IF input.arc_kind = "narc" THEN NarcFile(input)
                 ELSE SkewedArchiveFile(input)]
    /\ cursor = [s \in Src |-> 0]
    /\ fsys = [s \in Src |-> NoFs]
    /\ root = [s \in Src |-> NoRoot]
    /\ trace = [s \in Src |-> <<>>]
    /\ bpc = [s \in Src |-> "start"]
    /\ chunks = <<>>
    /\ tree = NoRoot
    /\ it = NoIterator
    /\ out = <<>>
    /\ tpc = "idle"
    /\ path = <<>>
    /\ curr_depth = 0
    /\ stack = <<>>
    /\ result = [some |-> FALSE]
    /\ spc = "idle"

\* The files of a run that reads damaged files, in a build without overflow
\* checks: the archive is read from the cursor on, behind input.lead bytes.
InitDamaged ==
    /\ input \in [items : SubTables(MaxItems), id_base : {0}, id_stride : {1},
                  fat_kind : {0}, arc_kind : ArchiveKinds, damage : Damages,
                  lead : Leads]
    /\ overflow_checks = FALSE
    /\ file = [s \in Src |->
                 IF s = "rom" THEN DamagedRom(input)
                 ELSE Shifted(DamagedArchive(input), input.lead)]
    /\ cursor = [s \in Src |-> IF s = "rom" THEN 0 ELSE input.lead]
    /\ fsys = [s \in Src |-> NoFs]
    /\ root = [s \in Src |-> NoRoot]
    /\ trace = [s \in Src |-> <<>>]
    /\ bpc = [s \in Src |-> "start"]
    /\ chunks = <<>>
    /\ tree = NoRoot
    /\ it = NoIterator
    /\ out = <<>>
    /\ tpc = "idle"
    /\ SearchIdle

StatusPc(st, done) ==
    IF st = "ok" THEN done ELSE IF st = "err" THEN "failed" ELSE "panicked"

\* Cartridge::file_system: Filesystem::from_rom on the plain image.
CallFromRom ==
    /\ bpc["rom"] = "start"
    /\ LET r == FromRom(file["rom"], cursor["rom"])
       IN /\ bpc' = [bpc EXCEPT !["rom"] = StatusPc(r.st, "opened")]
          /\ cursor' = [cursor EXCEPT !["rom"] = r.pos]
          /\ fsys' = IF r.st = "ok" THEN [fsys EXCEPT !["rom"] = r.val] ELSE fsys
    /\ UNCHANGED <<input, file, root, trace, chunks, overflow_checks, travVars,
                   searchVars>>

\* Filesystem::from_archive on the archive.
CallFromArchive ==
    /\ bpc["arc"] = "start"
    /\ LET r == FromArchive(file["arc"], cursor["arc"], overflow_checks)
       IN /\ bpc' = [bpc EXCEPT !["arc"] = StatusPc(r.st, "opened")]
          /\ cursor' = [cursor EXCEPT !["arc"] = r.pos]
          /\ fsys' = IF r.st = "ok" THEN [fsys EXCEPT !["arc"] = r.val] ELSE fsys
          /\ chunks' = r.chunks
    /\ UNCHANGED <<input, file, root, trace, overflow_checks, travVars, searchVars>>

\* A plausible slip: a failed read gives an empty root directory.
MutCallRootDirDefaultsEmpty(s) ==
    /\ bpc[s] = "opened"
    /\ LET r == RootDir(file[s], fsys[s], overflow_checks)
       IN /\ bpc' = [bpc EXCEPT ![s] = IF r.st = "panic" THEN "panicked" ELSE "built"]
          /\ cursor' = [cursor EXCEPT ![s] = r.pos]
          /\ trace' = [trace EXCEPT ![s] = r.log]
          /\ root' = [root EXCEPT ![s] = IF r.st = "ok" THEN r.val
                                         ELSE MkDirectory(RootName, <<>>)]
    /\ UNCHANGED <<input, file, fsys, chunks, overflow_checks, travVars,
                   searchVars>>

\* Filesystem::root_dir on the Filesystem made from file s.
CallRootDir(s) ==
    /\ bpc[s] = "opened"
    /\ LET r == RootDir(file[s], fsys[s], overflow_checks)
       IN /\ bpc' = [bpc EXCEPT ![s] = StatusPc(r.st, "built")]
          /\ cursor' = [cursor EXCEPT ![s] = r.pos]
          /\ trace' = [trace EXCEPT ![s] = r.log]
          /\ root' = IF r.st = "ok" THEN [root EXCEPT ![s] = r.val] ELSE root
    /\ UNCHANGED <<input, file, fsys, chunks, overflow_checks, travVars,
                   searchVars>>

NextBuild == CallFromRom \/ CallFromArchive \/ \E s \in Src : CallRootDir(s)

SpecBuild == InitBuild /\ [][NextBuild]_vars

SpecDamaged == InitDamaged /\ [][NextBuild]_vars

\* ------------------------------------------- claims on the traversal

RefOf(item) == item[2]

DepthOf(item) == item[1]

ParentRef(p) == SubSeq(p, 1, Len(p) - 1)

OutRefs == {RefOf(out[i]) : i \in DOMAIN out}

YieldedBefore(p, j) == \E i \in 1..(j - 1) : RefOf(out[i]) = p

FileChildren(p) ==
    LET d == IF p = <<>> THEN tree ELSE EntryAt(tree, p)
    IN {Append(p, i) : i \in {k \in 1..Len(d.entries) : IsFile(d.entries[k])}}

\* C1: running traverse() on a finite tree to exhaustion yields every
\* descendant of the start directory exactly once: nothing is yielded twice,
\* nothing but a descendant is yielded, and when next() has returned None
\* every descendant has been yielded.
C1_EveryEntryExactlyOnce ==
    /\ \A i, j \in DOMAIN out : i # j => RefOf(out[i]) # RefOf(out[j])
    /\ OutRefs \subseteq AllRefs(tree)
    /\ tpc = "done" => OutRefs = AllRefs(tree)

\* A finished traversal of a tree with nested entries, files and directories.
C1_Witness ==
    /\ tpc = "done"
    /\ Len(out) >= 4
    /\ \E i, j \in DOMAIN out :
          /\ Len(RefOf(out[i])) >= 2 /\ IsFile(EntryAt(tree, RefOf(out[i])))
          /\ Len(RefOf(out[j])) >= 2 /\ IsDirectory(EntryAt(tree, RefOf(out[j])))

\* C2: every directory entry is yielded strictly before each of its
\* descendants: when an entry is yielded, every directory on the way to it
\* from the start directory has been yielded earlier.
C2_DirectoryBeforeDescendants ==
    \A j \in DOMAIN out :
        \A k \in 1..(Len(RefOf(out[j])) - 1) :
            YieldedBefore(SubSeq(RefOf(out[j]), 1, k), j)

\* An entry three levels below the start directory has been yielded.
C2_Witness ==
    \E j \in DOMAIN out : Len(RefOf(out[j])) >= 3

\* C3: for every directory X, the start directory included, all direct file
\* children of X are yielded before any direct subdirectory of X.
C3_FilesBeforeSubdirectories ==
    \A j \in DOMAIN out :
        IsDirectory(EntryAt(tree, RefOf(out[j]))) =>
            \A f \in FileChildren(ParentRef(RefOf(out[j]))) : YieldedBefore(f, j)

\* A nested subdirectory that is declared before a file of the same
\* directory has been yielded.
C3_Witness ==
    \E j \in DOMAIN out :
        LET p == RefOf(out[j])
        IN /\ Len(p) >= 2
           /\ IsDirectory(EntryAt(tree, p))
           /\ \E f \in FileChildren(ParentRef(p)) : f[Len(f)] > p[Len(p)]

C5_FilesInDeclarationOrder ==
    \A i, j \in DOMAIN out :
        LET p == RefOf(out[i])
            q == RefOf(out[j])
        IN (/\ i < j
            /\ IsFile(EntryAt(tree, p))
            /\ IsFile(EntryAt(tree, q))
            /\ ParentRef(p) = ParentRef(q))
           => p[Len(p)] < q[Len(q)]

\* The references to the directory at p and to everything below it.
SubtreeRefs(p) == {p} \cup {p \o q : q \in AllRefs(EntryAt(tree, p))}

\* The sibling directories of the directory at p that are declared after it.
LaterSiblingDirs(p) ==
    LET par == ParentRef(p)
        d   == IF par = <<>> THEN tree ELSE EntryAt(tree, par)
    IN {Append(par, k) : k \in {m \in (p[Len(p)] + 1)..Len(d.entries) :
                                     IsDirectory(d.entries[m])}}

\* C14: sibling directories are yielded in the reverse of their declaration
\* order: when a directory A is yielded, every subdirectory B of the same
\* parent that is declared after A has been yielded before, and so has
\* every descendant of B.
C14_SiblingDirectoriesReversed ==
    \A i \in DOMAIN out :
        IsDirectory(EntryAt(tree, RefOf(out[i]))) =>
            \A b \in LaterSiblingDirs(RefOf(out[i])) :
                \A r \in SubtreeRefs(b) : YieldedBefore(r, i)

\* A nested directory has been yielded whose later sibling holds an entry.
C14_Witness ==
    \E i \in DOMAIN out :
        /\ Len(RefOf(out[i])) >= 2
        /\ IsDirectory(EntryAt(tree, RefOf(out[i])))
        /\ \E b \in LaterSiblingDirs(RefOf(out[i])) : EntryAt(tree, b).entries # <<>>

\* C16: the traversal of a finite tree ends: next() returns None after
\* finitely many calls; it returns None only when no file and no directory
\* is pending and whenever none is, so an empty start directory gives None
\* on the first call.
C16_TraversalEnds ==
    /\ <>(tpc = "done")
    /\ [][(tpc = "iterating" /\ tpc' = "done")
             <=> (tpc = "iterating" /\ it.dir_files = <<>> /\ it.to_visit = <<>>)]_vars
    /\ []((tpc = "iterating" /\ tree.entries = <<>>)
             => (it.dir_files = <<>> /\ it.to_visit = <<>> /\ out = <<>>))

\* next() has returned None after the start directory's only child and the
\* three entries below it were yielded, a directory last.
C16_Witness ==
    /\ tpc = "done"
    /\ it.dir_files = <<>> /\ it.to_visit = <<>>
    /\ Len(out) = 4
    /\ IsDirectory(EntryAt(tree, RefOf(out[4])))
    /\ Len(tree.entries) = 1

\* The position in out of the directory yielded last before position j with
\* depth d (any depth when d = -1), or 0.
LastDirBefore(j, d) ==
    LET S == {i \in 1..(j - 1) :
                 /\ IsDirectory(EntryAt(tree, RefOf(out[i])))
                 /\ (d = -1 \/ DepthOf(out[i]) = d)}
    IN IF S = {} THEN 0 ELSE CHOOSE i \in S : \A k \in S : k <= i

\* C20: when a file is yielded, the directory yielded last is its parent
\* and carried the file's depth (or none was yielded, the parent is the
\* start directory and the depth is 0); when a directory is yielded with
\* depth d, the directory yielded last with depth d - 1 is its parent (or d
\* is 1 and the parent is the start directory).
C20_LastDirectoryIsParent ==
    \A j \in DOMAIN out :
        LET p == RefOf(out[j])
            d == DepthOf(out[j])
        IN IF IsFile(EntryAt(tree, p))
           THEN LET m == LastDirBefore(j, -1)
                IN IF m = 0 THEN ParentRef(p) = <<>> /\ d = 0
                   ELSE RefOf(out[m]) = ParentRef(p) /\ DepthOf(out[m]) = d
           ELSE /\ d >= 1
                /\ IF d = 1 THEN ParentRef(p) = <<>>
                   ELSE LET m == LastDirBefore(j, d - 1)
                        IN m # 0 /\ RefOf(out[m]) = ParentRef(p)

\* A file two levels down and a directory three levels down have been
\* yielded after a sibling subtree was left.
C20_Witness ==
    /\ \E j \in DOMAIN out :
          /\ IsFile(EntryAt(tree, RefOf(out[j])))
          /\ DepthOf(out[j]) = 1
          /\ \E i \in 1..(j - 1) : DepthOf(out[i]) = 2
    /\ \E j \in DOMAIN out :
          /\ IsDirectory(EntryAt(tree, RefOf(out[j])))
          /\ DepthOf(out[j]) = 2

\* ------------------------------------------------ claims on the search

\* The entry reached from directory d (whose reference is ref) by following
\* the components comps name by name, or None.
RECURSIVE ResolveFrom(_, _, _)
ResolveFrom(d, ref, comps) ==
    LET named == {i \in DOMAIN d.entries : d.entries[i].name = Head(comps)}
    IN IF named = {} THEN None
       ELSE LET i == CHOOSE k \in named : TRUE
            IN IF Len(comps) = 1 THEN Some(Append(ref, i))
               ELSE IF IsDirectory(d.entries[i])
                    THEN ResolveFrom(d.entries[i], Append(ref, i), Tail(comps))
                    ELSE None

C19_StackSizeIsCurrDepth ==
    /\ spc # "panicked"
    /\ spc = "loop" => Len(stack) = curr_depth
    /\ (spc = "returned" /\ result # None
            /\ IsDirectory(EntryAt(tree, result.ref)))
           => Len(stack) = curr_depth

\* C21: search() with the empty path ends by returning None: it returns no
\* entry, the start directory included, and it does not panic.
C21_EmptyPathGivesNone ==
    (path = <<>> /\ spc \in {"returned", "panicked"}) =>
        /\ spc = "returned"
        /\ result = None

\* --------------------------------------------- claims on the table reader

\* The file entries among what root_dir() produced from file s, in order.
FileEvents(s) == SelectSeq(trace[s], LAMBDA e : e.kind = "File")

\* The file ids, in the order in which the files are produced, that the
\* description in of the tables asks for: the files of the directory of id k
\* take FirstIdOf(in, k), FirstIdOf(in, k) + 1, ... in sub-table order, the
\* directory ids being given in pre-order from next on.  n counts the files
\* of the sub-table before item i.
RECURSIVE ExpectedFileIds(_, _, _, _, _, _)
ExpectedFileIds(in, items, i, k, n, next) ==
    IF i > Len(items) THEN [ids |-> <<>>, next |-> next]
    ELSE IF items[i].kind = "Reserved"
    THEN ExpectedFileIds(in, items, i + 1, k, n, next)
    ELSE IF items[i].kind = "File"
    THEN LET r == ExpectedFileIds(in, items, i + 1, k, n + 1, next)
         IN [r EXCEPT !.ids = <<FirstIdOf(in, k) + n>> \o @]
    ELSE LET c == ExpectedFileIds(in, items[i].entries, 1, next, 0, next + 1)
             r == ExpectedFileIds(in, items, i + 1, k, n, c.next)
         IN [ids |-> c.ids \o r.ids, next |-> r.next]

\* C7: the i-th file entry of a sub-table (counting files only) reads the
\* allocation row first_file_id + i, whatever subdirectories and reserved
\* headers lie between the files and whatever ids the subdirectories use:
\* every file produced sought the row of its sub-table's file_id argument
\* plus the number of files produced before it there, and once the tree is
\* built the rows sought are those of the first file ids written into the
\* main table, counted up per directory.
C7_FileIdsContiguous ==
    \A s \in DOMAIN trace :
        /\ \A j \in DOMAIN trace[s] :
              trace[s][j].kind = "File" =>
                  trace[s][j].sought =
                      PosOfU32(fsys[s].fat_offset)
                      + 8 * (trace[s][j].first + trace[s][j].index)
        /\ bpc[s] = "built" =>
              LET ids == ExpectedFileIds(input, input.items, 1, 0, 0, 1).ids
              IN /\ Len(FileEvents(s)) = Len(ids)
                 /\ \A j \in DOMAIN ids :
                       FileEvents(s)[j].sought =
                           PosOfU32(fsys[s].fat_offset) + 8 * ids[j]

\* A tree was built in which a directory holds a file, then a subdirectory,
\* then a second file, which read the row after the first file's.
C7_Witness ==
    \E s \in DOMAIN trace :
        /\ bpc[s] = "built"
        /\ \E i, j, k \in DOMAIN trace[s] :
              /\ i < j /\ j < k
              /\ trace[s][i].kind = "File"
              /\ trace[s][j].kind = "Directory"
              /\ trace[s][k].kind = "File"
              /\ trace[s][i].first = trace[s][k].first
              /\ trace[s][j].first = trace[s][k].first
              /\ trace[s][i].index = 0
              /\ trace[s][k].index = 1
              /\ trace[s][k].sought = trace[s][i].sought + 8

\* The n bytes of file f from position p on.
BytesAt(f, p, n) == [i \in 1..n |-> ByteAt(f, p + i - 1)]

\* Addition and subtraction modulo 2^32 done on the four little-endian bytes,
\* from byte i on with a carry or borrow.
RECURSIVE AddLe(_, _, _, _)
AddLe(a, b, i, carry) ==
    IF i > 4 THEN <<>>
    ELSE <<(a[i] + b[i] + carry) % 256>>
         \o AddLe(a, b, i + 1, (a[i] + b[i] + carry) \div 256)

RECURSIVE SubLe(_, _, _, _)
SubLe(a, b, i, borrow) ==
    IF i > 4 THEN <<>>
    ELSE <<(256 + a[i] - b[i] - borrow) % 256>>
         \o SubLe(a, b, i + 1, IF a[i] - b[i] - borrow < 0 THEN 1 ELSE 0)

\* C8: every file entry produced has len = end - start and offset =
\* imageBase + start modulo 2^32, where start and end are the two
\* little-endian 32-bit values in the bytes of the file at the allocation
\* row that was sought for it.
C8_LenAndOffsetFromRow ==
    \A s \in DOMAIN trace : \A j \in DOMAIN trace[s] :
        trace[s][j].kind = "File" =>
            LET e     == trace[s][j]
                start == BytesAt(file[s], e.sought, 4)
                end   == BytesAt(file[s], e.sought + 4, 4)
            IN /\ LE32(e.entry.len) = SubLe(end, start, 1, 0)
               /\ LE32(e.entry.offset) =
                      AddLe(LE32(fsys[s].image_offset), start, 1, 0)

\* a < b for two 32-bit values
LessU32(a, b) == a[2] < b[2] \/ (a[2] = b[2] /\ a[1] < b[1])

\* An archive with a non-zero image base was read by a build without
\* overflow checks, and produced a file whose end lies before its start
\* (its len is above 2^31) and a file whose offset wrapped around (it is
\* below the image base).
C8_Witness ==
    /\ bpc # <<>>
    /\ bpc["arc"] = "built"
    /\ ~overflow_checks
    /\ LessU32(U32Zero, fsys["arc"].image_offset)
    /\ \E i, j \in DOMAIN trace["arc"] :
          /\ trace["arc"][i].kind = "File"
          /\ trace["arc"][j].kind = "File"
          /\ trace["arc"][i].entry.len[2] >= 32768
          /\ LessU32(trace["arc"][j].entry.offset, fsys["arc"].image_offset)

\* The number that up to four little-endian bytes spell, below 2^31.
NumLe(b) == IF b = <<>> THEN 0
            ELSE b[1] + 256 * (IF Len(b) > 1 THEN b[2] ELSE 0)
                 + 65536 * (IF Len(b) > 2 THEN b[3] ELSE 0)
                 + 16777216 * (IF Len(b) > 3 THEN b[4] ELSE 0)

\* The declared length of the chunk of f that starts at position p.
ChunkLen(f, p) == NumLe(BytesAt(f, p + 4, 4))

\* Where the three chunks of f start when each begins where the declared
\* extent of the one before ends.
ChunkStarts(f) ==
    [fat   |-> 16,
     fnt   |-> 16 + ChunkLen(f, 16),
     image |-> 16 + ChunkLen(f, 16) + ChunkLen(f, 16 + ChunkLen(f, 16))]

\* f is a well-formed archive: magic "NARC", version 0x10, chunk count 3,
\* and the chunks BTAF, BTNF, GMIF, each beginning exactly where the
\* declared extent of the one before ends, the last ending inside the file.
WellFormedArchive(f) ==
    /\ f.len >= 24
    /\ BytesAt(f, 0, 4) = TagNARC
    /\ BytesAt(f, 6, 2) = LE16(16)
    /\ BytesAt(f, 14, 2) = LE16(3)
    /\ BytesAt(f, 16, 4) = TagBTAF
    /\ ByteAt(f, 23) < 128
    /\ ChunkStarts(f).fnt + 8 <= f.len
    /\ BytesAt(f, ChunkStarts(f).fnt, 4) = TagBTNF
    /\ ByteAt(f, ChunkStarts(f).fnt + 7) < 64
    /\ ChunkStarts(f).image + 8 <= f.len
    /\ BytesAt(f, ChunkStarts(f).image, 4) = TagGMIF
    /\ ByteAt(f, ChunkStarts(f).image + 7) < 64
    /\ ChunkStarts(f).image + ChunkLen(f, ChunkStarts(f).image) <= f.len

\* C9: from_archive on a well-formed archive succeeds, and the Filesystem
\* it returns has the start offsets of the BTAF, BTNF and GMIF chunks as
\* its allocation-table base, name-table base and image base.
C9_WellFormedArchiveOpens ==
    (bpc # <<>> /\ bpc["arc"] # "start" /\ WellFormedArchive(file["arc"])) =>
        /\ bpc["arc"] \in {"opened", "built"}
        /\ fsys["arc"] =
               [fnt_offset   |-> U32OfPos(ChunkStarts(file["arc"]).fnt),
                fat_offset   |-> U32OfPos(ChunkStarts(file["arc"]).fat),
                image_offset |-> U32OfPos(ChunkStarts(file["arc"]).image)]

\* The archive holds the name table and the allocation table of the plain
\* image, byte for byte, behind the headers of its BTNF and BTAF chunks.
SameTables(rom, arc) ==
    LET fntBase == NumLe(BytesAt(rom, 64, 4))
        fatBase == NumLe(BytesAt(rom, 72, 4))
        c       == ChunkStarts(arc)
    IN /\ c.fnt - (c.fat + 12) = rom.len - fatBase
       /\ c.image - (c.fnt + 8) = fatBase - fntBase
       /\ BytesAt(arc, c.fat + 12, rom.len - fatBase)
              = BytesAt(rom, fatBase, rom.len - fatBase)
       /\ BytesAt(arc, c.fnt + 8, fatBase - fntBase)
              = BytesAt(rom, fntBase, fatBase - fntBase)

\* Two trees are structurally identical: same shape, same names in the same
\* order, same file lengths, and equal file offsets once the image bases
\* ia and ib are subtracted.
RECURSIVE TreesAgree(_, _, _, _)
TreesAgree(a, ia, b, ib) ==
    /\ a.kind = b.kind
    /\ a.name = b.name
    /\ IF IsFile(a)
       THEN /\ a.len = b.len
            /\ SubU32(a.offset, ia).val = SubU32(b.offset, ib).val
       ELSE /\ Len(a.entries) = Len(b.entries)
            /\ \A i \in DOMAIN a.entries :
                  TreesAgree(a.entries[i], ia, b.entries[i], ib)

\* C10: when the plain image and a well-formed archive around the same
\* tables have both been read, and the image gave a tree, the archive gave
\* a tree too and the two are structurally identical.
C10_RomAndArchiveTreesAgree ==
    (/\ bpc # <<>>
     /\ bpc["rom"] = "built"
     /\ bpc["arc"] \notin {"start", "opened"}
     /\ WellFormedArchive(file["arc"])
     /\ SameTables(file["rom"], file["arc"])) =>
        /\ bpc["arc"] = "built"
        /\ TreesAgree(root["rom"], fsys["rom"].image_offset,
                      root["arc"], fsys["arc"].image_offset)

\* The tags from_archive asks for, in order.
ExpectedTags == <<TagBTAF, TagBTNF, TagGMIF>>

\* Where the three chunks of the archive that begins at position s of f
\* start by the lengths they declare: the first behind the 16-byte header,
\* each further one where the declared extent of the one before ends.
DeclaredStarts(f, s) ==
    <<s + 16,
      s + 16 + ChunkLen(f, s + 16),
      s + 16 + ChunkLen(f, s + 16) + ChunkLen(f, s + 16 + ChunkLen(f, s + 16))>>

\* from_archive returned an error and no Filesystem, the cursor being at p.
RejectedAt(p) ==
    /\ bpc["arc"] = "failed"
    /\ fsys["arc"] = NoFs
    /\ cursor["arc"] = p

\* C11: from_archive returns an error and no Filesystem when the magic tag is
\* not "NARC", the version not 0x10, the chunk count not 3, or the tag of a
\* chunk not the one expected at its position, and it fails at the first
\* such field in stream order with the cursor right behind that field: the
\* start of the archive + 4, + 8, + 16, or the start of the chunk + 4.
C11_MalformedArchiveRejected ==
    (bpc # <<>> /\ bpc["arc"] # "start" /\ "lead" \in DOMAIN input) =>
        LET f  == file["arc"]
            s  == input.lead
            d  == DeclaredStarts(f, s)
            magicOk   == BytesAt(f, s, 4) = TagNARC
            versionOk == BytesAt(f, s + 6, 2) = LE16(16)
            countOk   == BytesAt(f, s + 14, 2) = LE16(3)
            tagOk(i)  == BytesAt(f, d[i], 4) = ExpectedTags[i]
        IN /\ ~magicOk => RejectedAt(s + 4)
           /\ (magicOk /\ ~versionOk) => RejectedAt(s + 8)
           /\ (magicOk /\ versionOk /\ ~countOk) => RejectedAt(s + 16)
           /\ (magicOk /\ versionOk /\ countOk) =>
                 \A i \in 1..3 :
                     ((\A j \in 1..(i - 1) : tagOk(j)) /\ ~tagOk(i)) =>
                         RejectedAt(d[i] + 4)

\* C12: a call of NitroArcChunk::read that succeeded on the chunk starting
\* at the cursor position s and declaring the length L left the cursor at
\* s + L, the end of the chunk.
C12_CursorAtEndOfChunk ==
    \A i \in DOMAIN chunks :
        chunks[i].st = "ok" =>
            chunks[i].left
                = chunks[i].start + ChunkLen(file["arc"], chunks[i].start)

\* Where the sub-table of the directory of id k begins in file s: the
\* name-table base plus the offset in the directory's main-table entry.
SubTableStart(s, k) ==
    PosOfU32(fsys[s].fnt_offset)
    + NumLe(BytesAt(file[s], PosOfU32(fsys[s].fnt_offset) + 8 * k, 4))

\* The directory id in the two bytes in front of position p of file s.
DirIdBefore(s, p) == NumLe(BytesAt(file[s], p - 2, 2)) % 4096

\* C13: behind each produced entry the cursor is restored to the byte that
\* follows the entry's own sub-table fields (header and name, and the two
\* bytes of the id for a subdirectory), wherever the read of the entry left
\* it; so a directory that was read leaves the cursor right behind the
\* terminating 0 of its own sub-table, and so does root_dir.
C13_CursorRestoredBehindEntry ==
    \A s \in DOMAIN trace :
        /\ \A j \in DOMAIN trace[s] :
              LET e == trace[s][j]
                  n == Len(e.entry.name)
              IN IF e.kind = "File"
                 THEN BytesAt(file[s], e.entry_end - n - 1, n + 1)
                          = <<n>> \o e.entry.name
                 ELSE /\ BytesAt(file[s], e.entry_end - n - 3, n + 1)
                             = <<128 + n>> \o e.entry.name
                      /\ e.left
                             = SubTableStart(s, DirIdBefore(s, e.entry_end))
                               + Len(SubTableBytes(input.items)
                                         [DirIdBefore(s, e.entry_end) + 1])
        /\ bpc[s] = "built" =>
              cursor[s] = SubTableStart(s, 0) + Len(SubTableBytes(input.items)[1])

\* A tree was built from a sub-table in which a file follows a subdirectory
\* that holds a file: the reads of all three left the cursor elsewhere than
\* behind the entry's fields.
C13_Witness ==
    \E s \in DOMAIN trace :
        /\ bpc[s] = "built"
        /\ \E i, j, k \in DOMAIN trace[s] :
              /\ i < j /\ j < k
              /\ trace[s][i].kind = "File"
              /\ trace[s][j].kind = "Directory"
              /\ trace[s][j].entry.entries # <<>>
              /\ trace[s][k].kind = "File"
              /\ trace[s][k].first = trace[s][j].first
              /\ \A m \in {i, j, k} : trace[s][m].left # trace[s][m].entry_end

\* The damage done to the plain image makes a read of root_dir fail: a name
\* that is read is not UTF-8, or the allocation row of a file lies behind
\* the end of the file.
RomReadMustFail ==
    LET subs == SubTableBytes(input.items)
        ids  == ExpectedFileIds(input, input.items, 1, 0, 0, 1).ids
    IN \/ input.damage = "utf8root" /\ subs[1][1] \notin {0, 128}
       \/ input.damage = "utf8last" /\ subs[Len(subs)][1] \notin {0, 128}
       \/ input.damage = "cut0" /\ ids # <<>>
       \/ input.damage = "cut1"
          /\ \E j \in DOMAIN ids : ids[j] >= FirstIdOf(input, 0) + 1

\* C15: a failure while the tree is built, at whatever depth, makes root_dir
\* return an error and no Directory: nothing of what was parsed before the
\* failure is returned, and nothing is put in its place.
C15_NoPartialTree ==
    \A s \in DOMAIN bpc :
        /\ bpc[s] = "failed" => root[s] = NoRoot
        /\ ("damage" \in DOMAIN input /\ s = "rom"
            /\ bpc[s] \notin {"start", "opened"} /\ RomReadMustFail)
               => bpc[s] = "failed"

\* root_dir failed on a name that is not UTF-8 in the sub-table of a nested
\* directory, after entries had been produced.
C15_Witness ==
    /\ bpc # <<>>
    /\ "damage" \in DOMAIN input
    /\ input.damage = "utf8last"
    /\ Len(SubTableBytes(input.items)) >= 2
    /\ bpc["rom"] = "failed"
    /\ fsys["rom"] # NoFs
    /\ trace["rom"] # <<>>
    /\ root["rom"] = NoRoot

\* C17: a directory whose sub-table begins with a header byte of 0 is read
\* successfully and has no children: nothing is produced for it, and the
\* cursor is left one byte behind the start of its sub-table.
C17_EmptySubTableGivesNoChildren ==
    \A s \in DOMAIN trace :
        /\ (bpc[s] \in {"built", "failed", "panicked"} /\ fsys[s] # NoFs
            /\ ByteAt(file[s], SubTableStart(s, 0)) = 0) =>
               /\ bpc[s] = "built"
               /\ root[s] = MkDirectory(RootName, <<>>)
               /\ trace[s] = <<>>
               /\ cursor[s] = SubTableStart(s, 0) + 1
        /\ \A j \in DOMAIN trace[s] :
              (/\ trace[s][j].kind = "Directory"
               /\ ByteAt(file[s],
                         SubTableStart(s, DirIdBefore(s, trace[s][j].entry_end))) = 0)
                  => /\ trace[s][j].entry.entries = <<>>
                     /\ trace[s][j].left
                            = SubTableStart(s, DirIdBefore(s, trace[s][j].entry_end)) + 1

\* A subdirectory whose sub-table is the single byte 0 was read inside
\* another subdirectory, and a file of that one was produced after it.
C17_Witness ==
    \E s \in DOMAIN trace :
        \E i, j \in DOMAIN trace[s] :
            /\ i < j
            /\ trace[s][i].kind = "Directory"
            /\ trace[s][i].entry.entries = <<>>
            /\ ByteAt(file[s],
                      SubTableStart(s, DirIdBefore(s, trace[s][i].entry_end))) = 0
            /\ trace[s][j].kind = "File"
            /\ trace[s][j].first = trace[s][i].first
            /\ DirIdBefore(s, trace[s][i].entry_end) = 2

\* The names and kinds of a tree, without the rows of its files.
RECURSIVE Shape(_)
Shape(e) ==
    IF IsFile(e) THEN [kind |-> "File", name |-> e.name]
    ELSE [kind |-> "Directory", name |-> e.name,
          entries |-> [i \in DOMAIN e.entries |-> Shape(e.entries[i])]]

\* The children that the description items of a sub-table asks for, from
\* item i on: its files and subdirectories in order, reserved headers left
\* out, each with the name written behind its header.
RECURSIVE ExpectedChildren(_, _)
ExpectedChildren(items, i) ==
    IF i > Len(items) THEN <<>>
    ELSE IF items[i].kind = "Reserved" THEN ExpectedChildren(items, i + 1)
    ELSE IF items[i].kind = "File"
    THEN <<[kind |-> "File", name |-> NameAt(i)]>>
         \o ExpectedChildren(items, i + 1)
    ELSE <<[kind |-> "Directory", name |-> NameAt(i),
            entries |-> ExpectedChildren(items[i].entries, 1)]>>
         \o ExpectedChildren(items, i + 1)

\* C18: the children of every directory are exactly the entries of its
\* sub-table that are not reserved headers, in sub-table order, files and
\* subdirectories together; each produced entry is a file iff the top bit of
\* the header in front of its name is clear, and its name has the length
\* given by the header's low 7 bits.
C18_ChildrenInSubTableOrder ==
    \A s \in DOMAIN trace :
        /\ bpc[s] = "built" =>
              Shape(root[s])
                  = [kind |-> "Directory", name |-> RootName,
                     entries |-> ExpectedChildren(input.items, 1)]
        /\ \A j \in DOMAIN trace[s] :
              LET e == trace[s][j]
                  n == Len(e.entry.name)
                  h == ByteAt(file[s], e.entry_end - n
                                       - (IF e.kind = "File" THEN 1 ELSE 3))
              IN /\ h % 128 = n
                 /\ (e.kind = "File") <=> (h < 128)
                 /\ h # 128

\* A tree was built whose root has a subdirectory, then a reserved header,
\* then a file in its sub-table: the root has the two children in that
\* order.
C18_Witness ==
    \E s \in DOMAIN trace :
        /\ bpc[s] = "built"
        /\ Len(input.items) = 3
        /\ input.items[1].kind = "Directory"
        /\ input.items[2].kind = "Reserved"
        /\ input.items[3].kind = "File"
        /\ Len(root[s].entries) = 2
        /\ ~IsFile(root[s].entries[1])
        /\ IsFile(root[s].entries[2])

====
